---- MODULE Spec2Model ----
(***************************************************************************)
(* Model of app.py, the Streamlit KPI dashboard script.                    *)
(*                                                                         *)
(* One run of the script is one evaluation: the page header, the CSV       *)
(* handling, the KPI calculations, the risk / diagnosis / score / forecast *)
(* / commentary engines and the display sections, each section one action. *)
(* A rerun (new upload, button click) executes the script again from its   *)
(* first line in a fresh namespace.                                        *)
(*                                                                         *)
(* Numbers: pandas hands the script numpy scalars (int64 / float64).  The  *)
(* arithmetic of lines 83-91 and 119 is float64 arithmetic: every "-",     *)
(* "/", "*" and "+" rounds its exact result to the nearest float64, ties   *)
(* to even, and "/" never raises: x/0 is inf, -inf or nan.                 *)
(***************************************************************************)
EXTENDS Integers, Sequences, FiniteSets, TLC

\* ------------------------------------------------------------------------
\* Unbounded naturals: little-endian sequences of 15-bit limbs, << >> is 0
\* (a float64 significand has 53 bits, the model checker's integers 31)
\* ------------------------------------------------------------------------
Base == 2^15

Min(a, b) == IF a < b THEN a ELSE b

RECURSIVE BFromInt(_)
BFromInt(n) == IF n = 0 THEN << >> ELSE <<n % Base>> \o BFromInt(n \div Base)

RECURSIVE BToInt(_)
BToInt(a) == IF a = << >> THEN 0 ELSE a[1] + Base * BToInt(Tail(a))

RECURSIVE BTrim(_)
BTrim(a) ==
    IF a = << >> THEN << >>
    ELSE IF a[Len(a)] = 0 THEN BTrim(SubSeq(a, 1, Len(a) - 1)) ELSE a

Limb(a, i) == IF i <= Len(a) THEN a[i] ELSE 0

RECURSIVE BCmpFrom(_, _, _)
BCmpFrom(a, b, i) ==
    IF i = 0 THEN 0
    ELSE IF a[i] < b[i] THEN -1
    ELSE IF a[i] > b[i] THEN 1
    ELSE BCmpFrom(a, b, i - 1)

\* -1, 0, 1 as a < b, a = b, a > b
BCmp(a, b) ==
    IF Len(a) < Len(b) THEN -1
    ELSE IF Len(a) > Len(b) THEN 1
    ELSE BCmpFrom(a, b, Len(a))

\* the limbs of a + b from limb i on, c the carry into limb i
RECURSIVE BAddFrom(_, _, _, _)
BAddFrom(a, b, i, c) ==
    IF i > Len(a) /\ i > Len(b) THEN (IF c = 0 THEN << >> ELSE <<c>>)
    ELSE <<(Limb(a, i) + Limb(b, i) + c) % Base>>
         \o BAddFrom(a, b, i + 1, (Limb(a, i) + Limb(b, i) + c) \div Base)

BAdd(a, b) == BAddFrom(a, b, 1, 0)

\* the limbs of a - b from limb i on, c the borrow out of limb i
RECURSIVE BSubFrom(_, _, _, _)
BSubFrom(a, b, i, c) ==
    IF i > Len(a) THEN << >>
    ELSE IF a[i] - Limb(b, i) - c < 0
    THEN <<a[i] - Limb(b, i) - c + Base>> \o BSubFrom(a, b, i + 1, 1)
    ELSE <<a[i] - Limb(b, i) - c>> \o BSubFrom(a, b, i + 1, 0)

\* a - b for a >= b
BSub(a, b) == BTrim(BSubFrom(a, b, 1, 0))

\* the limbs of a * k from limb i on, for a limb k and the carry c
RECURSIVE BMulLimb(_, _, _, _)
BMulLimb(a, k, i, c) ==
    IF i > Len(a) THEN (IF c = 0 THEN << >> ELSE <<c>>)
    ELSE <<(a[i] * k + c) % Base>> \o BMulLimb(a, k, i + 1, (a[i] * k + c) \div Base)

RECURSIVE BMul(_, _)
BMul(a, b) ==
    IF a = << >> \/ b = << >> THEN << >>
    ELSE BTrim(BAdd(BMulLimb(a, b[1], 1, 0), <<0>> \o BMul(a, Tail(b))))

\* a * 2^k
BShl(a, k) ==
    IF k = 0 \/ a = << >> THEN a
    ELSE [i \in 1..(k \div 15) |-> 0] \o BMulLimb(a, 2^(k % 15), 1, 0)

RECURSIVE BShrFrom(_, _, _)
BShrFrom(a, k, i) ==
    IF i > Len(a) THEN << >>
    ELSE <<(a[i] \div 2^k) + (Limb(a, i + 1) % 2^k) * 2^(15 - k)>>
         \o BShrFrom(a, k, i + 1)

\* a \div 2^k
BShr(a, k) ==
    IF k = 0 \/ a = << >> THEN a
    ELSE IF k \div 15 >= Len(a) THEN << >>
    ELSE BTrim(BShrFrom(SubSeq(a, 1 + (k \div 15), Len(a)), k % 15, 1))

BIsOdd(a) == a # << >> /\ a[1] % 2 = 1

RECURSIVE IntBitLen(_)
IntBitLen(n) == IF n = 0 THEN 0 ELSE 1 + IntBitLen(n \div 2)

BitLen(a) == IF a = << >> THEN 0 ELSE 15 * (Len(a) - 1) + IntBitLen(a[Len(a)])

\* number of trailing zero bits of n > 0
RECURSIVE IntTrailingZeros(_)
IntTrailingZeros(n) == IF n % 2 = 1 THEN 0 ELSE 1 + IntTrailingZeros(n \div 2)

RECURSIVE BTrailingZeros(_, _)
BTrailingZeros(a, i) ==
    IF a[i] = 0 THEN 15 + BTrailingZeros(a, i + 1) ELSE IntTrailingZeros(a[i])

\* the largest digit q < acc + 2^(b+1) with q * d <= r, found bit by bit
RECURSIVE BDigit(_, _, _, _)
BDigit(r, d, b, acc) ==
    IF b < 0 THEN acc
    ELSE IF BCmp(BMulLimb(d, acc + 2^b, 1, 0), r) <= 0
    THEN BDigit(r, d, b - 1, acc + 2^b)
    ELSE BDigit(r, d, b - 1, acc)

\* long division of n by d, most significant limb of n first: r is the
\* remainder so far, q the quotient limbs so far, g the next quotient limb
RECURSIVE BDivFrom(_, _, _, _, _)
RECURSIVE BDivStep(_, _, _, _, _)
RECURSIVE BDivPut(_, _, _, _, _, _)
BDivFrom(n, d, i, r, q) ==
    IF i = 0 THEN [q |-> BTrim(q), r |-> r]
    ELSE BDivStep(n, d, i, BTrim(<<n[i]>> \o r), q)

BDivStep(n, d, i, r, q) ==
    BDivPut(n, d, i, r, q, IF BCmp(r, d) < 0 THEN 0 ELSE BDigit(r, d, 14, 0))

BDivPut(n, d, i, r, q, g) ==
    BDivFrom(n, d, i - 1,
             IF g = 0 THEN r ELSE BSub(r, BMulLimb(d, g, 1, 0)), <<g>> \o q)

\* quotient and remainder of n by d > 0
BDivMod(n, d) == BDivFrom(n, d, Len(n), << >>, << >>)

\* ------------------------------------------------------------------------
\* numpy float64 scalars.  A finite value is s * m * 2^e with sign s in
\* {1, -1}, m odd (or m = 0, e = 0: the zeros +0.0 and -0.0); every
\* operation returns the float64 nearest to the exact result, ties to even.
\* pandas hands the script numpy scalars, so "/" never raises: x/0 is inf,
\* -inf or nan.  Exponent overflow and subnormals are out of the range of
\* the tables and are not modelled.
\* ------------------------------------------------------------------------
Zero(s) == [k |-> "fin", s |-> s, m |-> << >>, e |-> 0]

Inf == [k |-> "inf", s |-> 1, m |-> << >>, e |-> 0]

NInf == [k |-> "ninf", s |-> -1, m |-> << >>, e |-> 0]

NaN == [k |-> "nan", s |-> 1, m |-> << >>, e |-> 0]

IsFin(a) == a.k = "fin"

IsZero(a) == a.k = "fin" /\ a.m = << >>

\* s * m * 2^e for m with z trailing zero bits
CanonBy(s, m, e, z) == [k |-> "fin", s |-> s, m |-> BShr(m, z), e |-> e + z]

\* the normal form of s * m * 2^e
Canon(s, m, e) ==
    IF m = << >> THEN Zero(s) ELSE CanonBy(s, m, e, BTrailingZeros(m, 1))

\* s * q * 2^e, one unit added to q when the dropped part (c: its comparison
\* with half a unit) rounds up
RoundBy(s, q, e, sticky, c) ==
    Canon(s,
          IF c > 0 \/ (c = 0 /\ (sticky \/ BIsOdd(q))) THEN BAdd(q, <<1>>) ELSE q,
          e)

\* m with its last drop bits dropped and rounded, q the bits kept
RoundAt(s, m, e, sticky, drop, q) ==
    RoundBy(s, q, e + drop, sticky,
            BCmp(BSub(m, BShl(q, drop)), BShl(<<1>>, drop - 1)))

\* s * m * 2^e (plus a positive amount below the last bit of m when sticky)
\* rounded to 53 significant bits, ties to even
Round53(s, m, e, sticky) ==
    IF BitLen(m) <= 53 THEN Canon(s, m, e)
    ELSE RoundAt(s, m, e, sticky, BitLen(m) - 53, BShr(m, BitLen(m) - 53))

\* an exact finite value as the nearest float64
RoundNum(x) == Round53(x.s, x.m, x.e, FALSE)

AbsInt(i) == IF i < 0 THEN -i ELSE i

\* an integer (int64 cell, literal) as a float64
Int2Num(i) == Canon(IF i < 0 THEN -1 ELSE 1, BFromInt(AbsInt(i)), 0)

Neg(a) ==
    CASE a.k = "fin" -> [a EXCEPT !.s = -a.s]
      [] a.k = "inf" -> NInf
      [] a.k = "ninf" -> Inf
      [] OTHER -> a

Abs(a) ==
    CASE a.k = "fin" -> [a EXCEPT !.s = 1]
      [] a.k = "ninf" -> Inf
      [] OTHER -> a

\* sign of a number that is not nan, as 1 or -1 (zeros carry their sign)
Sign(a) == IF a.k = "ninf" THEN -1 ELSE a.s

\* -1, 0, 1 as a < b, a == b, a > b, for numbers that are not nan
Cmp(a, b) ==
    CASE a.k = b.k /\ a.k # "fin" -> 0
      [] a.k = "ninf" \/ b.k = "inf" -> -1
      [] a.k = "inf" \/ b.k = "ninf" -> 1
      [] IsZero(a) /\ IsZero(b) -> 0
      [] IsZero(a) -> -b.s
      [] IsZero(b) -> a.s
      [] a.s # b.s -> a.s
      [] OTHER -> a.s * BCmp(BShl(a.m, a.e - Min(a.e, b.e)),
                             BShl(b.m, b.e - Min(a.e, b.e)))

\* comparisons: every comparison with nan is False
Lt(a, b) == a.k # "nan" /\ b.k # "nan" /\ Cmp(a, b) < 0

Le(a, b) == a.k # "nan" /\ b.k # "nan" /\ Cmp(a, b) <= 0

\* sa * ma * 2^lo + sb * mb * 2^lo for sa # sb, c the comparison of ma and mb
AddSigned(sa, ma, sb, mb, lo, c) ==
    IF c = 0 THEN Zero(1)
    ELSE Canon(IF c > 0 THEN sa ELSE sb,
               BSub(IF c > 0 THEN ma ELSE mb, IF c > 0 THEN mb ELSE ma), lo)

\* sa * ma * 2^lo + sb * mb * 2^lo
AddAligned(sa, ma, sb, mb, lo) ==
    IF sa = sb THEN Canon(sa, BAdd(ma, mb), lo)
    ELSE AddSigned(sa, ma, sb, mb, lo, BCmp(ma, mb))

\* the exact sum of two finite numbers, of any length
ExactAdd(a, b) ==
    AddAligned(a.s, BShl(a.m, a.e - Min(a.e, b.e)),
               b.s, BShl(b.m, b.e - Min(a.e, b.e)), Min(a.e, b.e))

\* the exact product of two finite numbers, of any length
ExactMul(a, b) == Canon(a.s * b.s, BMul(a.m, b.m), a.e + b.e)

Add(a, b) ==
    CASE a.k = "nan" \/ b.k = "nan" -> NaN
      [] IsFin(a) /\ IsFin(b) -> RoundNum(ExactAdd(a, b))
      [] IsFin(a) -> b
      [] IsFin(b) -> a
      [] OTHER -> IF a.k = b.k THEN a ELSE NaN

Sub(a, b) == Add(a, Neg(b))

Mul(a, b) ==
    CASE a.k = "nan" \/ b.k = "nan" -> NaN
      [] IsFin(a) /\ IsFin(b) -> RoundNum(ExactMul(a, b))
      [] IsZero(a) \/ IsZero(b) -> NaN
      [] OTHER -> IF Sign(a) * Sign(b) > 0 THEN Inf ELSE NInf

\* s * (qr.q + a fraction) * 2^e as a float64, the fraction being zero
\* exactly when the remainder qr.r is
DivRound(s, qr, e) == Round53(s, qr.q, e, qr.r # << >>)

\* a / b for finite non-zero a and b: the significand of a is shifted by sh
\* bits so that the integer quotient has at least 55 bits
DivBy(a, b, sh) ==
    DivRound(a.s * b.s, BDivMod(BShl(a.m, sh), b.m), a.e - b.e - sh)

\* numpy true division: a zero divisor gives inf, -inf or nan, never an exception
Div(a, b) ==
    CASE a.k = "nan" \/ b.k = "nan" -> NaN
      [] IsFin(a) /\ IsFin(b) ->
            IF IsZero(b)
            THEN IF IsZero(a) THEN NaN
                 ELSE IF a.s * b.s > 0 THEN Inf ELSE NInf
            ELSE IF IsZero(a) THEN Zero(a.s * b.s)
            ELSE DivBy(a, b, 55 + 15 * Len(b.m))
      [] IsFin(a) -> Zero(Sign(a) * Sign(b))
      [] IsFin(b) -> IF Sign(a) * Sign(b) > 0 THEN Inf ELSE NInf
      [] OTHER -> NaN

\* the float64 nearest to n / d: what a cell or literal written n/d parses to
Fin(n, d) == Div(Int2Num(n), Int2Num(d))

\* Python ints are unbounded, the model checker's are not: round() of a
\* value of magnitude IntCap or more is reported as IntCap with its sign
IntCap == 2^30

\* s * (q + 1) when the part of the value below q (c: its comparison with
\* one half) rounds up, s * q otherwise
RoundHalfBy(s, q, c) ==
    s * (BToInt(q) + (IF c > 0 \/ (c = 0 /\ BIsOdd(q)) THEN 1 ELSE 0))

RoundHalfAt(a, q) ==
    RoundHalfBy(a.s, q, BCmp(BSub(a.m, BShl(q, -a.e)), BShl(<<1>>, -a.e - 1)))

\* round(x) of a finite float64 with no ndigits: the nearest Python int,
\* halves to the even neighbour
RoundHalfEven(a) ==
    IF IsZero(a) THEN 0
    ELSE IF a.e + BitLen(a.m) > 30 THEN a.s * IntCap
    ELSE IF a.e >= 0 THEN a.s * BToInt(BShl(a.m, a.e))
    ELSE RoundHalfAt(a, BShr(a.m, -a.e))

\* ------------------------------------------------------------------------
\* Exact rationals n / d, n a finite number of any length and d a positive
\* natural: the values a least-squares line takes in exact arithmetic
\* ------------------------------------------------------------------------
F2Q(a) == [n |-> a, d |-> <<1>>]

QInt(i) == F2Q(Int2Num(i))

\* n * k for a natural k
Scale(n, k) == Canon(n.s, BMul(n.m, k), n.e)

QNeg(a) == [a EXCEPT !.n = Neg(a.n)]

QAdd(a, b) ==
    [n |-> ExactAdd(Scale(a.n, b.d), Scale(b.n, a.d)), d |-> BMul(a.d, b.d)]

QSub(a, b) == QAdd(a, QNeg(b))

QMul(a, b) == [n |-> ExactMul(a.n, b.n), d |-> BMul(a.d, b.d)]

\* a / b for b # 0
QDiv(a, b) ==
    [n |-> Canon(a.n.s * b.n.s, BMul(a.n.m, b.d), a.n.e - b.n.e),
     d |-> BMul(a.d, b.n.m)]

\* -1, 0, 1 as n is negative, zero, positive
SignOf(n) == IF IsZero(n) THEN 0 ELSE n.s

\* -1, 0, 1 as a < b, a = b, a > b
QCmp(a, b) == SignOf(QSub(a, b).n)

QAbs(a) == [a EXCEPT !.n = Abs(a.n)]

\* ------------------------------------------------------------------------
\* Inputs: the file the uploader hands to the script
\* ------------------------------------------------------------------------
MaxRows == 3

required_columns == {"Month", "Revenue", "Orders"}

\* Revenue cells (0, 5, 9, 9.5, 10) and Orders cells of the uploaded tables
RevVals == {Fin(n, 2) : n \in {0, 10, 18, 19, 20}}

OrdVals == {0, 4, 5}

RowVals == [Revenue : RevVals, Orders : OrdVals]

Tables == UNION {[1..n -> RowVals] : n \in 0..MaxRows}

NoFile == [present |-> FALSE, columns |-> {}, rows |-> << >>]

\* an upload is the header and the data rows of its text; the file with no
\* header line at all (0 bytes, or blank) has no columns
EmptyFile == [present |-> TRUE, columns |-> {}, rows |-> << >>]

Files ==
    {[present |-> TRUE, columns |-> required_columns, rows |-> t] : t \in Tables}
    \cup {[present |-> TRUE, columns |-> c, rows |-> << >>] :
             c \in (SUBSET required_columns) \ {required_columns, {}}}
    \cup {EmptyFile}

\* line 42: pd.read_csv finds no columns to parse and raises EmptyDataError
ReadCsvRaises(file) == file.columns = {}

\* a name the running script has not assigned yet
Unset == [k |-> "unset", s |-> 1, m |-> << >>, e |-> 0]

\* a Python int, and an int name not assigned yet
PyInt(i) == [k |-> "int", v |-> i]

UnsetInt == [k |-> "unset", v |-> 0]

NoDf == [loaded |-> FALSE, columns |-> {}, rows |-> << >>]

\* ------------------------------------------------------------------------
\* State
\* ------------------------------------------------------------------------
VARIABLES
    pc,                \* the section of the script the run is at
    uploaded_file,     \* what st.sidebar.file_uploader returned
    df,                \* the parsed table
    current_revenue, previous_revenue, mom_change,
    current_orders, previous_orders, order_change,
    current_aov, previous_aov, aov_change,
    risk_level, risk_message, diagnosis,
    risk_score, forecast_revenue, ai_commentary,
    shown,             \* the elements this run has written to the page
    exception,         \* the uncaught exception that ended the run, or "none"
    rerun,             \* history: an earlier run of the script has ended
    fit_bias           \* sign of the rounding residue of the LAPACK fit

kpiVars == <<current_revenue, previous_revenue, mom_change,
             current_orders, previous_orders, order_change,
             current_aov, previous_aov, aov_change>>

engineVars == <<risk_level, risk_message, diagnosis,
                risk_score, forecast_revenue, ai_commentary>>

vars == <<pc, uploaded_file, df, kpiVars, engineVars, shown, exception, rerun,
          fit_bias>>

\* faulty variant of FreshNamespace: the next run inherits the previous run's names
StaleNamespace ==
    UNCHANGED <<uploaded_file, df, kpiVars, engineVars>>

\* the namespace of a script run before its first assignment
FreshNamespace ==
    /\ uploaded_file' = NoFile
    /\ df' = NoDf
    /\ current_revenue' = Unset /\ previous_revenue' = Unset /\ mom_change' = Unset
    /\ current_orders' = Unset /\ previous_orders' = Unset /\ order_change' = Unset
    /\ current_aov' = Unset /\ previous_aov' = Unset /\ aov_change' = Unset
    /\ risk_level' = "unset" /\ risk_message' = "unset" /\ diagnosis' = "unset"
    /\ risk_score' = UnsetInt /\ forecast_revenue' = Unset /\ ai_commentary' = "unset"

Init ==
    /\ pc = "idle"
    /\ uploaded_file = NoFile
    /\ df = NoDf
    /\ current_revenue = Unset /\ previous_revenue = Unset /\ mom_change = Unset
    /\ current_orders = Unset /\ previous_orders = Unset /\ order_change = Unset
    /\ current_aov = Unset /\ previous_aov = Unset /\ aov_change = Unset
    /\ risk_level = "unset" /\ risk_message = "unset" /\ diagnosis = "unset"
    /\ risk_score = UnsetInt /\ forecast_revenue = Unset /\ ai_commentary = "unset"
    /\ shown = {}
    /\ exception = "none"
    /\ rerun = FALSE
    /\ fit_bias \in {-1, 1}

\* ------------------------------------------------------------------------
\* The script, section by section
\* ------------------------------------------------------------------------

\* lines 9-36: page config, title, format help, sidebar header, uploader
PageHeader ==
    /\ pc = "idle"
    /\ \E f \in Files \cup {NoFile} : uploaded_file' = f
    /\ shown' = {"title", "expected_format", "file_uploader"}
    /\ pc' = "csv"
    /\ UNCHANGED <<df, kpiVars, engineVars, exception, rerun, fit_bias>>

\* lines 41-76: read the CSV and check its columns, or show the placeholder;
\* the exception of pd.read_csv is not caught and ends the run
CSVHandling ==
    /\ pc = "csv"
    /\ IF uploaded_file.present
       THEN IF ReadCsvRaises(uploaded_file)
            THEN /\ df' = df
                 /\ exception' = "EmptyDataError"
                 /\ shown' = shown \cup {"exception"}
                 /\ pc' = "crashed"
            ELSE /\ df' = [loaded |-> TRUE, columns |-> uploaded_file.columns,
                           rows |-> uploaded_file.rows]
                 /\ exception' = exception
                 /\ IF required_columns \subseteq uploaded_file.columns
                    THEN /\ pc' = "kpi"
                         /\ shown' = shown
                    ELSE /\ pc' = "stopped"
                         /\ shown' = shown \cup {"column_error"}
       ELSE /\ df' = df
            /\ exception' = exception
            /\ pc' = "stopped"
            /\ shown' = shown \cup {"upload_warning", "placeholder_metrics",
                                    "placeholder_chart", "upload_info"}
    /\ UNCHANGED <<uploaded_file, kpiVars, engineVars, rerun, fit_bias>>

\* lines 83, 87, 91: ((current - previous) / previous) * 100, each of the
\* three operations rounded to float64
PctChange(current, previous) ==
    Mul(Div(Sub(current, previous), previous), Int2Num(100))

\* faulty variant of ILoc: rows counted from the head of the table, iloc[i-1]
ILocFromHead(table, col, i) ==
    LET v == table[i][col]
    IN  IF col = "Orders" THEN Int2Num(v) ELSE v

\* table[col].iloc[-i]
ILoc(table, col, i) ==
    LET v == table[Len(table) + 1 - i][col]
    IN  IF col = "Orders" THEN Int2Num(v) ELSE v

\* lines 83, 87, 91 on the four cells read by lines 81, 82, 85, 86 and the
\* two AOVs of lines 89, 90
KPIsWith(cr, pr, co, po, ca, pa) ==
    [current_revenue |-> cr, previous_revenue |-> pr,
     mom_change |-> PctChange(cr, pr),
     current_orders |-> co, previous_orders |-> po,
     order_change |-> PctChange(co, po),
     current_aov |-> ca, previous_aov |-> pa,
     aov_change |-> PctChange(ca, pa)]

\* lines 83-91 on the four cells read by lines 81, 82, 85, 86
KPIsFrom(cr, pr, co, po) == KPIsWith(cr, pr, co, po, Div(cr, co), Div(pr, po))

\* table[key] where the table has the key, the value worked out otherwise
Memo(table, key, value) == IF key \in DOMAIN table THEN table[key] ELSE value

\* the cells the last two rows of an uploaded table can hold, and lines 83-91
\* worked out once for each of them
KPICells ==
    {<<r[1], r[2], Int2Num(o[1]), Int2Num(o[2])>> :
        r \in [1..2 -> RevVals], o \in [1..2 -> OrdVals]}

KPITable == [c \in KPICells |-> KPIsFrom(c[1], c[2], c[3], c[4])] @@ << >>

KPIsAt(c) == Memo(KPITable, c, KPIsFrom(c[1], c[2], c[3], c[4]))

\* lines 81-91 on a table of at least two rows
KPIsOf(table) ==
    KPIsAt(<<ILoc(table, "Revenue", 1), ILoc(table, "Revenue", 2),
             ILoc(table, "Orders", 1), ILoc(table, "Orders", 2)>>)

\* lines 81-91: the nine names take the values k
AssignKPIs(k) ==
    /\ current_revenue' = k.current_revenue
    /\ previous_revenue' = k.previous_revenue
    /\ mom_change' = k.mom_change
    /\ current_orders' = k.current_orders
    /\ previous_orders' = k.previous_orders
    /\ order_change' = k.order_change
    /\ current_aov' = k.current_aov
    /\ previous_aov' = k.previous_aov
    /\ aov_change' = k.aov_change

\* lines 81-91; iloc[-1] / iloc[-2] raise IndexError on a table too short
KPICalculations ==
    /\ pc = "kpi"
    /\ IF Len(df.rows) >= 2
       THEN /\ AssignKPIs(KPIsOf(df.rows))
            /\ pc' = "risk"
            /\ UNCHANGED <<exception, shown>>
       ELSE /\ current_revenue' =
                   IF Len(df.rows) = 1 THEN ILoc(df.rows, "Revenue", 1)
                   ELSE current_revenue
            /\ UNCHANGED <<previous_revenue, mom_change, current_orders,
                           previous_orders, order_change, current_aov,
                           previous_aov, aov_change>>
            /\ exception' = "IndexError"
            /\ shown' = shown \cup {"exception"}
            /\ pc' = "crashed"
    /\ UNCHANGED <<uploaded_file, df, engineVars, rerun, fit_bias>>

\* faulty variant of RiskLevelOf: the High threshold excludes -10
RiskLevelStrict(mom) ==
    IF Lt(mom, Int2Num(-10)) THEN "High Risk"
    ELSE IF Lt(mom, Int2Num(0)) THEN "Medium Risk"
    ELSE "Healthy"

\* lines 96-104: the level and message of the risk engine
RiskLevelOf(mom) ==
    IF Le(mom, Int2Num(-10)) THEN "High Risk"
    ELSE IF Lt(Int2Num(-10), mom) /\ Lt(mom, Int2Num(0)) THEN "Medium Risk"
    ELSE "Healthy"

RiskMessageOf(mom) ==
    IF Le(mom, Int2Num(-10))
    THEN "Significant revenue decline detected. Immediate investigation required."
    ELSE IF Lt(Int2Num(-10), mom) /\ Lt(mom, Int2Num(0))
    THEN "Moderate revenue decline. Monitor closely."
    ELSE "Revenue performance is stable or growing."

RiskEngine ==
    /\ pc = "risk"
    /\ risk_level' = RiskLevelOf(mom_change)
    /\ risk_message' = RiskMessageOf(mom_change)
    /\ pc' = "diagnosis"
    /\ UNCHANGED <<uploaded_file, df, kpiVars, diagnosis, risk_score,
                   forecast_revenue, ai_commentary, shown, exception, rerun, fit_bias>>

\* faulty variant of DiagnosisOf: flat orders count as a decline
DiagnosisOrdersLe(mom, ord) ==
    IF Lt(mom, Int2Num(0)) /\ Le(ord, Int2Num(0))
    THEN "Revenue and order volume declined together. Possible demand contraction."
    ELSE IF Lt(mom, Int2Num(0)) /\ Lt(Int2Num(0), ord)
    THEN "Revenue declined while order volume remained stable. Potential pricing issue."
    ELSE "No major structural performance issue detected."

\* faulty variant of DiagnosisOf: flat revenue counts as a decline
DiagnosisRevenueLe(mom, ord) ==
    IF Le(mom, Int2Num(0)) /\ Lt(ord, Int2Num(0))
    THEN "Revenue and order volume declined together. Possible demand contraction."
    ELSE IF Le(mom, Int2Num(0)) /\ Le(Int2Num(0), ord)
    THEN "Revenue declined while order volume remained stable. Potential pricing issue."
    ELSE "No major structural performance issue detected."

\* lines 109-114
DiagnosisOf(mom, ord) ==
    IF Lt(mom, Int2Num(0)) /\ Lt(ord, Int2Num(0))
    THEN "Revenue and order volume declined together. Possible demand contraction."
    ELSE IF Lt(mom, Int2Num(0)) /\ Le(Int2Num(0), ord)
    THEN "Revenue declined while order volume remained stable. Potential pricing issue."
    ELSE "No major structural performance issue detected."

DiagnosisEngine ==
    /\ pc = "diagnosis"
    /\ diagnosis' = DiagnosisOf(mom_change, order_change)
    /\ pc' = "score"
    /\ UNCHANGED <<uploaded_file, df, kpiVars, risk_level, risk_message, risk_score,
                   forecast_revenue, ai_commentary, shown, exception, rerun, fit_bias>>

\* the delta percentages the engines are run on by themselves: both
\* thresholds, their neighbours (-9.999999999999998 is the float64 next to
\* -10, what line 83 gives for 2.0 -> 1.8) and values that saturate the score
DeltaVals ==
    {Fin(n, 4) : n \in {-200, -41, -40, -39, -1, 0, 1, 5, 160}}
    \cup {PctChange(Fin(9, 5), Fin(2, 1))}

\* line 119: abs(mom_change)*2 + abs(order_change)*1.5 + abs(aov_change)*1.2,
\* two float64 sums of three float64 products, left to right
RawScoreFrom(mom, ord, aov) ==
    Add(Add(Mul(Abs(mom), Int2Num(2)), Mul(Abs(ord), Fin(3, 2))),
        Mul(Abs(aov), Fin(6, 5)))

\* the delta triples of the uploaded tables and of the engines by themselves,
\* and line 119 worked out once for each of them
DeltaTriples ==
    {<<t[1], t[2], t[3]>> : t \in [1..3 -> DeltaVals]}
    \cup {<<k.mom_change, k.order_change, k.aov_change>> :
             k \in {KPITable[c] : c \in KPICells}}

RawTable == [t \in DeltaTriples |-> RawScoreFrom(t[1], t[2], t[3])] @@ << >>

RawScore(mom, ord, aov) ==
    Memo(RawTable, <<mom, ord, aov>>, RawScoreFrom(mom, ord, aov))

\* faulty variant of ScoreOf: the min(..., 100) is missing
ScoreUnclamped(mom, ord, aov) ==
    PyInt(RoundHalfEven(RawScore(mom, ord, aov)))

\* line 119: min(round(raw), 100) for a finite raw value
ScoreOf(mom, ord, aov) ==
    PyInt(Min(RoundHalfEven(RawScore(mom, ord, aov)), 100))

\* line 119: round() of nan raises ValueError, of inf OverflowError
RoundError(raw) == IF raw.k = "nan" THEN "ValueError" ELSE "OverflowError"

RiskScore ==
    /\ pc = "score"
    /\ IF IsFin(RawScore(mom_change, order_change, aov_change))
       THEN /\ risk_score' = ScoreOf(mom_change, order_change, aov_change)
            /\ pc' = "forecast"
            /\ UNCHANGED <<exception, shown>>
       ELSE /\ risk_score' = risk_score
            /\ exception' = RoundError(RawScore(mom_change, order_change, aov_change))
            /\ shown' = shown \cup {"exception"}
            /\ pc' = "crashed"
    /\ UNCHANGED <<uploaded_file, df, kpiVars, risk_level, risk_message, diagnosis,
                   forecast_revenue, ai_commentary, rerun, fit_bias>>

\* lines 124-126: np.polyfit(x, y, 1) with x = 0..N-1, the least-squares
\* line of the float64 values y, in exact arithmetic: the sums of the normal
\* equations over the first n points
RECURSIVE SumX(_)
SumX(n) == IF n = 0 THEN 0 ELSE SumX(n - 1) + (n - 1)

RECURSIVE SumXX(_)
SumXX(n) == IF n = 0 THEN 0 ELSE SumXX(n - 1) + (n - 1) * (n - 1)

RECURSIVE SumY(_, _)
SumY(y, n) == IF n = 0 THEN QInt(0) ELSE QAdd(SumY(y, n - 1), F2Q(y[n]))

RECURSIVE SumXY(_, _)
SumXY(y, n) ==
    IF n = 0 THEN QInt(0)
    ELSE QAdd(SumXY(y, n - 1), QMul(QInt(n - 1), F2Q(y[n])))

Slope(n, Sx, Sy, Sxx, Sxy) ==
    QDiv(QSub(QMul(n, Sxy), QMul(Sx, Sy)), QSub(QMul(n, Sxx), QMul(Sx, Sx)))

Coefficients(n, Sx, Sy, slope) ==
    [slope |-> slope, intercept |-> QDiv(QSub(Sy, QMul(slope, Sx)), n)]

FitSums(n, Sx, Sy, Sxx, Sxy) == Coefficients(n, Sx, Sy, Slope(n, Sx, Sy, Sxx, Sxy))

Polyfit(y) ==
    FitSums(QInt(Len(y)), QInt(SumX(Len(y))), SumY(y, Len(y)),
            QInt(SumXX(Len(y))), SumXY(y, Len(y)))

\* line 127: np.poly1d(coefficients) evaluated at index i
TrendLine(coefficients, i) ==
    QAdd(QMul(coefficients.slope, QInt(i)), coefficients.intercept)

\* the whole number s * mag as a float64
SignedWhole(s, mag) == IF mag = 0 THEN Zero(s) ELSE Int2Num(s * mag)

\* s * (qr.q + qr.r / den) to the nearest whole number, c the comparison of
\* qr.r / den with one half
RoundFitAt(s, bias, qr, c) ==
    SignedWhole(s, BToInt(qr.q)
                   + (IF c > 0 \/ (c = 0 /\ s * bias > 0) THEN 1 ELSE 0))

RoundFitBy(s, bias, den, qr) ==
    RoundFitAt(s, bias, qr, BCmp(BAdd(qr.r, qr.r), den))

RoundFitOf(s, bias, num, den) == RoundFitBy(s, bias, den, BDivMod(num, den))

\* line 129: round(value, 0), a float64.  The fitted value carries the
\* rounding residue of the floating-point solve, so an exact half (and an
\* exact zero, for its sign) goes to whichever side the residue lies on;
\* every other value goes to its nearest integer.
RoundFit(a, bias) ==
    IF IsZero(a.n) THEN Zero(bias)
    ELSE RoundFitOf(a.n.s, bias,
                    BShl(a.n.m, IF a.n.e > 0 THEN a.n.e ELSE 0),
                    BShl(a.d, IF a.n.e < 0 THEN -a.n.e ELSE 0))

\* df["Revenue"].values
RevenueValues(rows) == [i \in 1..Len(rows) |-> rows[i].Revenue]

\* faulty variant of ForecastOf: the line is evaluated at the last index, not the next
ForecastAtLastIndex(rows, bias) ==
    RoundFit(TrendLine(Polyfit(RevenueValues(rows)), Len(rows) - 1), bias)

\* lines 124-129 on the values of the Revenue column
ForecastFrom(y, bias) == RoundFit(TrendLine(Polyfit(y), Len(y)), bias)

\* the Revenue columns of the uploaded tables that reach line 124, and
\* lines 124-129 worked out once for each of them
RevenueColumns == UNION {[1..n -> RevVals] : n \in 2..MaxRows}

ForecastTable ==
    [c \in RevenueColumns \X {-1, 1} |-> ForecastFrom(c[1], c[2])] @@ << >>

\* lines 124-129
ForecastOf(rows, bias) ==
    Memo(ForecastTable, <<RevenueValues(rows), bias>>,
         ForecastFrom(RevenueValues(rows), bias))

RevenueForecast ==
    /\ pc = "forecast"
    /\ forecast_revenue' = ForecastOf(df.rows, fit_bias)
    /\ pc' = "commentary"
    /\ UNCHANGED <<uploaded_file, df, kpiVars, risk_level, risk_message, diagnosis,
                   risk_score, ai_commentary, shown, exception, rerun, fit_bias>>

\* lines 134-140
ai_diagnosis_layer(revenue_change, ord_change, level) ==
    IF level = "High Risk"
    THEN "Revenue contraction detected alongside order decline. Immediate intervention recommended."
    ELSE IF level = "Medium Risk"
    THEN "Early signs of revenue deceleration observed. Close monitoring advised."
    ELSE "Revenue trajectory remains stable with positive order dynamics. No material performance anomaly detected."

\* line 142
AICommentary ==
    /\ pc = "commentary"
    /\ ai_commentary' = ai_diagnosis_layer(mom_change, order_change, risk_level)
    /\ pc' = "display"
    /\ UNCHANGED <<uploaded_file, df, kpiVars, risk_level, risk_message, diagnosis,
                   risk_score, forecast_revenue, shown, exception, rerun, fit_bias>>

\* lines 147-192: the four st.metric tiles, the risk / diagnosis / commentary
\* expanders, the trend chart and the projected revenue
Display ==
    /\ pc = "display"
    /\ shown' = shown \cup {"kpi_metrics", "risk_assessment", "diagnosis",
                            "ai_commentary", "trend_chart", "forecast"}
    /\ pc' = "report"
    /\ UNCHANGED <<uploaded_file, df, kpiVars, engineVars, exception, rerun, fit_bias>>

\* lines 197-213: the report button and the closing success banner
ReportAndSuccess ==
    /\ pc = "report"
    /\ \E clicked \in BOOLEAN :
          shown' = shown \cup (IF clicked THEN {"report"} ELSE {}) \cup {"success"}
    /\ pc' = "done"
    /\ UNCHANGED <<uploaded_file, df, kpiVars, engineVars, exception, rerun, fit_bias>>

\* the run is over (last line, st.stop() or an uncaught exception): its
\* namespace and element list are dropped, the next run starts from line 1
ScriptRunEnds ==
    /\ pc \in {"done", "stopped", "crashed"}
    /\ FreshNamespace
    /\ shown' = {}
    /\ exception' = "none"
    /\ rerun' = TRUE
    /\ pc' = "idle"
    /\ UNCHANGED fit_bias

Next ==
    \/ PageHeader
    \/ CSVHandling
    \/ KPICalculations
    \/ RiskEngine
    \/ DiagnosisEngine
    \/ RiskScore
    \/ RevenueForecast
    \/ AICommentary
    \/ Display
    \/ ReportAndSuccess
    \/ ScriptRunEnds

Spec == Init /\ [][Next]_vars

\* ------------------------------------------------------------------------
\* The three engines on their own, on every triple of DeltaVals
\* ------------------------------------------------------------------------
InitFn ==
    /\ pc = "risk"
    /\ uploaded_file = NoFile
    /\ df = NoDf
    /\ current_revenue = Unset /\ previous_revenue = Unset
    /\ current_orders = Unset /\ previous_orders = Unset
    /\ current_aov = Unset /\ previous_aov = Unset
    /\ mom_change \in DeltaVals
    /\ order_change \in DeltaVals
    /\ aov_change \in DeltaVals
    /\ risk_level = "unset" /\ risk_message = "unset" /\ diagnosis = "unset"
    /\ risk_score = UnsetInt /\ forecast_revenue = Unset /\ ai_commentary = "unset"
    /\ shown = {}
    /\ exception = "none"
    /\ rerun = FALSE
    /\ fit_bias = 1

NextFn ==
    \/ RiskEngine
    \/ DiagnosisEngine
    \/ RiskScore

SpecFn == InitFn /\ [][NextFn]_vars

\* ------------------------------------------------------------------------
\* Properties
\* ------------------------------------------------------------------------
KPIsUnset ==
    /\ current_revenue = Unset /\ previous_revenue = Unset /\ mom_change = Unset
    /\ current_orders = Unset /\ previous_orders = Unset /\ order_change = Unset
    /\ current_aov = Unset /\ previous_aov = Unset /\ aov_change = Unset

EnginesUnset ==
    /\ risk_level = "unset" /\ risk_message = "unset" /\ diagnosis = "unset"
    /\ risk_score = UnsetInt /\ forecast_revenue = Unset /\ ai_commentary = "unset"

KPIElements == {"kpi_metrics", "risk_assessment", "diagnosis", "ai_commentary",
                "trend_chart", "forecast", "report", "success"}

HasColumns == uploaded_file.present /\ required_columns \subseteq uploaded_file.columns

\* the run has gone past the CSV handling section
PastCSV == pc \notin {"idle", "csv"}

\* the run has gone past the KPI calculations section
PastKPI == pc \notin {"idle", "csv", "kpi"}

NonFinite(a) == a.k \in {"inf", "ninf", "nan"}

DeclinedTogether ==
    "Revenue and order volume declined together. Possible demand contraction."

PricingIssue ==
    "Revenue declined while order volume remained stable. Potential pricing issue."

NoIssue == "No major structural performance issue detected."

\* C1: a table with all required columns but fewer than 2 rows ends in
\* InsufficientDataError before any metric is read, and shows no KPI output.
C1_InsufficientDataRejected ==
    (HasColumns /\ Len(uploaded_file.rows) < 2 /\ PastKPI)
        => /\ exception = "InsufficientDataError"
           /\ KPIsUnset /\ EnginesUnset
           /\ shown \cap KPIElements = {}

\* C2: a validated table whose previous revenue, previous orders or previous
\* AOV is 0 ends in DivisionByZeroError; no inf / nan delta is stored or
\* flows into the risk level or the diagnosis, and no other fault is raised.
ZeroDenominator ==
    /\ HasColumns
    /\ Len(uploaded_file.rows) >= 2
    /\ \/ IsZero(ILoc(uploaded_file.rows, "Revenue", 2))
       \/ IsZero(ILoc(uploaded_file.rows, "Orders", 2))

C2_DivisionByZeroGuarded ==
    (ZeroDenominator /\ PastKPI)
        => /\ exception = "DivisionByZeroError"
           /\ ~NonFinite(mom_change) /\ ~NonFinite(order_change)
           /\ ~NonFinite(aov_change)
           /\ risk_level = "unset" /\ diagnosis = "unset" /\ risk_score = UnsetInt

\* C3: once an upload lacking a required column has been handled, the run
\* shows the column error and is halted by it: no metric, level, diagnosis,
\* score or forecast is ever computed in it and no KPI element is shown.
MissingColumns ==
    uploaded_file.present /\ ~(required_columns \subseteq uploaded_file.columns)

C3_ColumnErrorHalts ==
    (MissingColumns /\ PastCSV)
        => /\ pc = "stopped"
           /\ "column_error" \in shown
           /\ exception = "none"
           /\ KPIsUnset /\ EnginesUnset
           /\ shown \cap KPIElements = {}

\* C4: the level and message follow from the revenue delta alone:
\* delta <= -10 High (-10 included), -10 < delta < 0 Medium, delta >= 0
\* Healthy (0 included), whatever the order and AOV deltas are.
C4_RiskThresholds ==
    risk_level # "unset"
        => LET c10 == Cmp(mom_change, Int2Num(-10))
               c0  == Cmp(mom_change, Int2Num(0))
           IN  /\ (c10 <= 0) =>
                     /\ risk_level = "High Risk"
                     /\ risk_message = "Significant revenue decline detected. Immediate investigation required."
               /\ (c10 > 0 /\ c0 < 0) =>
                     /\ risk_level = "Medium Risk"
                     /\ risk_message = "Moderate revenue decline. Monitor closely."
               /\ (c0 >= 0) =>
                     /\ risk_level = "Healthy"
                     /\ risk_message = "Revenue performance is stable or growing."

C4_Witness ==
    /\ mom_change = Int2Num(-10) /\ risk_level = "High Risk"
    /\ order_change = Int2Num(40) /\ aov_change = Int2Num(-50)

\* C5: revenue and orders both down gives "declined together"; revenue down
\* with orders not down gives "pricing issue"; revenue not down gives "no
\* major structural issue"; the AOV delta plays no part.
C5_DiagnosisTable ==
    diagnosis # "unset"
        => LET m0 == Cmp(mom_change, Int2Num(0))
               o0 == Cmp(order_change, Int2Num(0))
           IN  /\ (m0 < 0 /\ o0 < 0) => diagnosis = DeclinedTogether
               /\ (m0 < 0 /\ o0 >= 0) => diagnosis = PricingIssue
               /\ (m0 >= 0) => diagnosis = NoIssue

C5_Witness ==
    /\ diagnosis = DeclinedTogether
    /\ Lt(mom_change, Int2Num(0)) /\ Lt(order_change, Int2Num(0))
    /\ aov_change = Int2Num(40)

\* C6: the score is an integer in 0..100, is 100 whenever the rounded raw
\* value exceeds 100, and does not decrease when the magnitude of any one of
\* the three deltas grows while the other two stay.
DeltasNow == <<mom_change, order_change, aov_change>>

ScoreAt(t) == ScoreOf(t[1], t[2], t[3])

C6_ScoreBoundedMonotone ==
    risk_score # UnsetInt
        => /\ risk_score.k = "int"
           /\ risk_score.v \in 0..100
           /\ RoundHalfEven(RawScore(mom_change, order_change, aov_change)) > 100
                 => risk_score.v = 100
           /\ \A x \in DeltaVals : \A i \in 1..3 :
                 Le(Abs(DeltasNow[i]), Abs(x))
                     => ScoreAt([DeltasNow EXCEPT ![i] = x]).v >= risk_score.v

C6_Witness ==
    /\ risk_score = PyInt(100)
    /\ RoundHalfEven(RawScore(mom_change, order_change, aov_change)) > 100
    /\ mom_change = Int2Num(-10)

\* C7: the snapshot, level, diagnosis and score of a table of any length are
\* those of the table made of its last two rows alone, so tables that end in
\* the same two rows get the same values whatever comes before them.
LastTwo(table) == SubSeq(table, Len(table) - 1, Len(table))

SnapshotNow ==
    [current_revenue |-> current_revenue, previous_revenue |-> previous_revenue,
     mom_change |-> mom_change,
     current_orders |-> current_orders, previous_orders |-> previous_orders,
     order_change |-> order_change,
     current_aov |-> current_aov, previous_aov |-> previous_aov,
     aov_change |-> aov_change]

\* the names assigned so far hold what lines 81-119 give for the snapshot k
AgreesWith(k) ==
    /\ SnapshotNow = k
    /\ risk_level # "unset" => risk_level = RiskLevelOf(k.mom_change)
    /\ diagnosis # "unset" => diagnosis = DiagnosisOf(k.mom_change, k.order_change)
    /\ risk_score # UnsetInt
          => risk_score = ScoreOf(k.mom_change, k.order_change, k.aov_change)

C7_LastTwoRowsOnly ==
    (PastKPI /\ mom_change # Unset)
        => /\ current_revenue = df.rows[Len(df.rows)].Revenue
           /\ previous_revenue = df.rows[Len(df.rows) - 1].Revenue
           /\ current_orders = Int2Num(df.rows[Len(df.rows)].Orders)
           /\ previous_orders = Int2Num(df.rows[Len(df.rows) - 1].Orders)
           /\ AgreesWith(KPIsOf(LastTwo(df.rows)))

\* rows (0,0), (10,5), (9,5): revenue 10 -> 9 is -10.0 and the AOV 2.0 -> 1.8
\* is -9.999999999999998 after the three roundings of line 91
C7_Witness ==
    /\ pc = "done"
    /\ Len(df.rows) = 3
    /\ df.rows[1] = [Revenue |-> Fin(0, 1), Orders |-> 0]
    /\ df.rows[2] = [Revenue |-> Fin(10, 1), Orders |-> 5]
    /\ df.rows[3] = [Revenue |-> Fin(9, 1), Orders |-> 5]
    /\ mom_change = Int2Num(-10)
    /\ current_aov = Fin(9, 5)
    /\ Lt(Int2Num(-10), aov_change)
    /\ aov_change = PctChange(Fin(9, 5), Fin(2, 1))
    /\ risk_score = PyInt(32)

\* C8: a perfectly linear revenue series revenue[i] = a*i + b
IsLinear(table) ==
    /\ Len(table) >= 2
    /\ \A i \in 1..Len(table) :
          QCmp(F2Q(table[i].Revenue),
               QAdd(F2Q(table[1].Revenue),
                    QMul(QSub(F2Q(table[2].Revenue), F2Q(table[1].Revenue)),
                         QInt(i - 1)))) = 0

\* a*N + b
Extrapolation(table) ==
    QAdd(F2Q(table[1].Revenue),
         QMul(QSub(F2Q(table[2].Revenue), F2Q(table[1].Revenue)),
              QInt(Len(table))))

\* C8 as stated: for every perfectly linear revenue series the projected
\* revenue equals exactly a*N + b.
C8_ExactExtrapolation ==
    (forecast_revenue # Unset /\ IsLinear(df.rows))
        => QCmp(F2Q(forecast_revenue), Extrapolation(df.rows)) = 0

\* C8 as amended: for every perfectly linear revenue series the projected
\* revenue is a*N + b rounded to an integer: a whole number within 1/2 of
\* a*N + b, hence exactly a*N + b whenever that is a whole number.
C8_RoundedExtrapolation ==
    (forecast_revenue # Unset /\ IsLinear(df.rows))
        => /\ IsFin(forecast_revenue) /\ forecast_revenue.e >= 0
           /\ QCmp(QAbs(QSub(F2Q(forecast_revenue), Extrapolation(df.rows))),
                   QDiv(QInt(1), QInt(2))) <= 0

C8_Witness ==
    /\ Len(df.rows) = 3
    /\ df.rows[1].Revenue = Fin(0, 1)
    /\ df.rows[2].Revenue = Fin(5, 1)
    /\ df.rows[3].Revenue = Fin(10, 1)
    /\ forecast_revenue = Int2Num(15)

\* C9: what a run computes is a function of its own table alone: a run starts
\* with nothing assigned, a run halted by st.stop() has computed nothing, and
\* a completed run holds exactly the values the engines give for its table,
\* in a first run and in every later one.
EvaluationWith(k, forecast) ==
    [kpis |-> k,
     risk_level |-> RiskLevelOf(k.mom_change),
     risk_message |-> RiskMessageOf(k.mom_change),
     diagnosis |-> DiagnosisOf(k.mom_change, k.order_change),
     risk_score |-> ScoreOf(k.mom_change, k.order_change, k.aov_change),
     forecast_revenue |-> forecast,
     ai_commentary |-> ai_diagnosis_layer(k.mom_change, k.order_change,
                                          RiskLevelOf(k.mom_change))]

EvaluationOf(table, bias) ==
    EvaluationWith(KPIsOf(table), ForecastOf(table, bias))

EvaluationNow ==
    [kpis |-> SnapshotNow,
     risk_level |-> risk_level,
     risk_message |-> risk_message,
     diagnosis |-> diagnosis,
     risk_score |-> risk_score,
     forecast_revenue |-> forecast_revenue,
     ai_commentary |-> ai_commentary]

C9_Stateless ==
    /\ pc \in {"idle", "csv"} => (df = NoDf /\ KPIsUnset /\ EnginesUnset)
    /\ pc = "stopped" => (KPIsUnset /\ EnginesUnset)
    /\ pc = "done" => /\ df.rows = uploaded_file.rows
                      /\ EvaluationNow = EvaluationOf(uploaded_file.rows, fit_bias)

C9_Witness ==
    /\ rerun /\ pc = "done" /\ "report" \in shown
    /\ risk_level = "Medium Risk"

\* C10: in a run that gets as far as showing its assessment, the level is
\* Healthy exactly when the diagnosis is "no major structural issue", and
\* High or Medium exactly when it is one of the two decline statements.
C10_LevelMatchesDiagnosis ==
    "risk_assessment" \in shown
        => /\ (risk_level = "Healthy") <=> (diagnosis = NoIssue)
           /\ (risk_level \in {"High Risk", "Medium Risk"})
                 <=> (diagnosis \in {DeclinedTogether, PricingIssue})

C10_Witness ==
    /\ pc = "done"
    /\ risk_level = "Medium Risk"
    /\ diagnosis = PricingIssue

====
